---- MODULE Spec2Model ----
(***************************************************************************)
(* napps-server: the identity and token lifecycle (core/models.py User and *)
(* Token, api/users.py), the napp metadata registry (core/models.py Napp)  *)
(* and the artifact store (napps_server/api/napps.py), over the redis      *)
(* store `con` and the repository directory NAPP_REPO.                     *)
(*                                                                         *)
(* One action is one request handler or one model-level call, run to       *)
(* completion at one reading of the clock.  The clock is sampled on a grid *)
(* of ticks; one tick stands for 86400 seconds, which is both the default  *)
(* token lifetime and the step of _curr_date().  The sections on the store *)
(* writes, the uploads and the confirmations take the same code one store  *)
(* or file system call at a time, for requests served side by side.        *)
(***************************************************************************)
EXTENDS Integers, Sequences, FiniteSets, TLC

\* ------------------------------------------------------------------ bounds
MaxClock == 2
MaxTokens == 2
MaxCounter == 1
MaxFiles == 2

Usernames == {"alice", "bob"}
Emails == {"a@x.com"}
Passwords == {"pw123"}
Hashes == 1..MaxTokens
Clock == 0..MaxClock
Names == {"foo", "bar"}

\* ------------------------------------------------------------------ state
VARIABLES
    now,          \* datetime.utcnow(), in ticks
    users,        \* redis hashes user:<username>
    usersSet,     \* redis set "users"
    tokens,       \* redis hashes token:<hash>
    tokensSet,    \* redis set "tokens"
    userTokens,   \* redis lists user:<username>:tokens, head = pushed last
    napps,        \* redis hashes napp:<author>/<name>
    nappsSet,     \* redis set "napps"
    userNapps,    \* redis sets user:<username>:napps
    repoDirs,     \* the author directories that exist under NAPP_REPO
    repoFiles,    \* the artifact files, as <<author, filename>>
    latest,       \* the symlinks <name>-latest.napp, <<author, name>> -> target
    invalidated,  \* history: the token hashes invalidate() was applied to
    confirmed,    \* history: the token hashes a confirm succeeded with
    lastIssued,   \* history: per user, the hash create_token issued last (0: none)
    resp,         \* the last call and what it answered
    inflight      \* per request being served: where it stands, and its local objects

store == <<users, usersSet, tokens, tokensSet, userTokens>>
registry == <<napps, nappsSet, userNapps>>
artifacts == <<repoDirs, repoFiles, latest>>
vars == <<now, users, usersSet, tokens, tokensSet, userTokens,
          napps, nappsSet, userNapps, repoDirs, repoFiles, latest,
          invalidated, confirmed, lastIssued, resp, inflight>>
history == <<invalidated, confirmed, lastIssued>>

\* ------------------------------------------------------------------ keys
UserKey(username) == <<"user", username>>
TokenKey(hash) == <<"token", hash>>

\* str(bool) as redis-py stores it, and the eval() that User.from_dict applies
StrBool(b) == IF b THEN "True" ELSE "False"
EvalBool(s) == s = "True"

\* bcrypt.hashpw(password, gensalt()): never empty, never the plain text
HashPw(password) == [kind |-> "bcrypt", of |-> password]

\* a password kept as the request gave it
PlainPw(password) == [kind |-> "plain", of |-> password]

None == [none |-> TRUE]

\* ------------------------------------------------------------------ requests
\* the requests the server works on at the same time
Requests == {"r1", "r2"}

\* the local objects of a request: a User, a Token, a Napp's populated fields,
\* a directory listing, a filename
NoUser == [username |-> "", email |-> "", password |-> PlainPw(""), enabled |-> ""]
NoToken == [hash |-> 0, created_at |-> 0, microsecond |-> 0, user |-> "",
            expiration_time |-> 0]
NoFile == [name |-> "", date |-> 0, counter |-> 0]

\* a request slot nothing runs in
Idle == [op |-> "idle", step |-> "", user |-> "", name |-> "", hash |-> 0,
         read |-> 0, key |-> 0,
         uobj |-> NoUser, tobj |-> NoToken, fields |-> <<>>, listing |-> {},
         file |-> NoFile]

\* ------------------------------------------------------------------ Token
\* the expiration_time create_token defaults to: 86400 s, one tick
DefaultExpiration == 1

\* the lifetimes a caller of create_token asks for: none at all, or the default
TTLs == {0, DefaultExpiration}

\* Token.generate: sha256 of 128 fresh random bytes, a hash no token has yet,
\* stored, indexed in "tokens" without a record, or still in a request's hands,
\* and none a request in progress was sent;
\* the hashes are written 1, 2, ... as they are generated
Generate ==
    LET used == DOMAIN tokens \cup {k[2] : k \in tokensSet}
                    \cup {inflight[r].tobj.hash : r \in Requests}
                    \cup {inflight[r].hash : r \in Requests}
    IN  CHOOSE h \in 1..(Cardinality(used) + 1) :
            /\ h \notin used
            /\ \A g \in 1..(h - 1) : g \in used

\* Token.expires_at
ExpiresAt(token) == token.created_at + token.expiration_time

\* Token.is_valid, at clock reading t
IsValidAt(token, t) == t <= ExpiresAt(token)

IsValid(token) == IsValidAt(token, now)

\* Token.invalidate on the token stored under hash h: expiration_time = 0, save
InvalidatedTokens(h) == [tokens EXCEPT ![h].expiration_time = 0]

\* datetime.utcnow().microsecond at Token(): 0 on a whole second, and 1 for
\* every other reading
Microseconds == {0, 1}

\* what a raised ValueError leaves in place of a token
TokenValueError == [raised |-> "ValueError"]

\* Token.from_dict of a stored record.  Token.save stored created_at as
\* str(datetime), which ends in '.ffffff' only when microsecond is not 0, and
\* strptime(..., '%Y-%m-%d %H:%M:%S.%f') raises ValueError on a text without it
TokenFromDict(attributes) ==
    IF attributes.microsecond = 0 THEN TokenValueError ELSE attributes

\* User.token: the head of the user's token list, if it is valid
UserToken(username) ==
    IF userTokens[username] = <<>> THEN None
    ELSE LET token == TokenFromDict(tokens[Head(userTokens[username])])
         IN  IF token = TokenValueError THEN TokenValueError
             ELSE IF IsValid(token) THEN token ELSE None

\* ------------------------------------------------------------------ answers
NoStored == [name |-> "", date |-> 0, counter |-> 0]

Answer(op, username, hash, status, body) ==
    [op |-> op, user |-> username, hash |-> hash, file |-> <<>>,
     stored |-> NoStored, status |-> status, body |-> body]

\* a model-level call that answers nothing, and the clock's step
Called == Answer("call", "", 0, 0, "")

\* ------------------------------------------------------------------ User
\* User.save of a user object whose fields are rec
SavedUsers(username, rec) ==
    IF username \in DOMAIN users
    THEN [users EXCEPT ![username] = rec]
    ELSE users @@ (username :> rec)

\* User(username, email, ...).set_password(password): the constructor's disabled
\* user, saved over whatever record the username had
CreateUser(username, email, password) ==
    /\ users' = SavedUsers(username,
                    [username |-> username, email |-> email,
                     password |-> HashPw(password), enabled |-> StrBool(FALSE)])
    /\ usersSet' = usersSet \cup {UserKey(username)}
    /\ resp' = Called
    /\ UNCHANGED <<now, inflight, tokens, tokensSet, userTokens, registry, artifacts, history>>

\* User.get(username).set_password(password)
SetPassword(username, password) ==
    /\ username \in DOMAIN users
    /\ users' = SavedUsers(username,
                    [users[username] EXCEPT !.password = HashPw(password)])
    /\ usersSet' = usersSet \cup {UserKey(username)}
    /\ resp' = Called
    /\ UNCHANGED <<now, inflight, tokens, tokensSet, userTokens, registry, artifacts, history>>

\* User.get(username).create_token(expiration_time), the clock read at
\* microsecond
CreateToken(username, ttl, microsecond) ==
    /\ username \in DOMAIN users
    /\ \E h \in {Generate} \cap Hashes :
        /\ tokens' = tokens @@ (h :> [hash |-> h, created_at |-> now,
                                      microsecond |-> microsecond,
                                      user |-> username, expiration_time |-> ttl])
        /\ tokensSet' = tokensSet \cup {TokenKey(h)}
        /\ userTokens' = [userTokens EXCEPT ![username] = <<h>> \o @]
        /\ lastIssued' = [lastIssued EXCEPT ![username] = h]
        /\ resp' = Called
    /\ UNCHANGED <<now, inflight, users, usersSet, registry, artifacts, invalidated, confirmed>>

\* Token.get(h).invalidate()
Invalidate(h) ==
    /\ h \in DOMAIN tokens
    /\ IF TokenFromDict(tokens[h]) = TokenValueError
       THEN /\ resp' = Answer("invalidate", tokens[h].user, h, 500, "ValueError")
            /\ UNCHANGED <<tokens, tokensSet, invalidated>>
       ELSE /\ tokens' = InvalidatedTokens(h)
            /\ tokensSet' = tokensSet \cup {TokenKey(h)}
            /\ invalidated' = invalidated \cup {h}
            /\ resp' = Called
    /\ UNCHANGED <<now, inflight, users, usersSet, userTokens, registry, artifacts, confirmed, lastIssued>>

\* User.get(username).enable()
Enable(username) ==
    /\ username \in DOMAIN users
    /\ users' = SavedUsers(username,
                    [users[username] EXCEPT !.enabled = StrBool(TRUE)])
    /\ usersSet' = usersSet \cup {UserKey(username)}
    /\ resp' = Called
    /\ UNCHANGED <<now, inflight, tokens, tokensSet, userTokens, registry, artifacts, history>>

\* User.get(username).disable(): token.invalidate() on the current token, which
\* is None.invalidate(), an AttributeError, when there is none; then save
Disable(username) ==
    /\ username \in DOMAIN users
    /\ LET token == UserToken(username)
       IN  IF token = TokenValueError
           THEN /\ resp' = Answer("disable", username, 0, 500, "ValueError")
                /\ UNCHANGED <<store, history>>
           ELSE IF token = None
           THEN /\ resp' = Answer("disable", username, 0, 500, "AttributeError")
                /\ UNCHANGED <<store, history>>
           ELSE /\ tokens' = InvalidatedTokens(token.hash)
                /\ tokensSet' = tokensSet \cup {TokenKey(token.hash)}
                /\ invalidated' = invalidated \cup {token.hash}
                /\ users' = SavedUsers(username,
                                [users[username] EXCEPT !.enabled = StrBool(FALSE)])
                /\ usersSet' = usersSet \cup {UserKey(username)}
                /\ resp' = Answer("disable", username, 0, 0, "")
                /\ UNCHANGED <<userTokens, confirmed, lastIssued>>
    /\ UNCHANGED <<now, inflight, registry, artifacts>>

\* ------------------------------------------------------------------ api/users.py
\* the parameters User.__init__ declares, and the keywords register_user passes
UserInitParams == {"username", "email", "first_name", "last_name",
                   "phone", "city", "state", "country", "enabled"}
RegisterKwargs == {"username", "password", "email", "first_name", "last_name"}

RegContents == [username : Usernames, email : Emails, password : Passwords]

\* a registration that saves without looking the username up first
RegisterUserOverwrites(content) ==
    /\ users' = SavedUsers(content.username,
                    [username |-> content.username, email |-> content.email,
                     password |-> PlainPw(content.password), enabled |-> StrBool(FALSE)])
    /\ usersSet' = usersSet \cup {UserKey(content.username)}
    /\ resp' = Answer("register_user", content.username, 0, 201, "")
    /\ UNCHANGED <<now, inflight, tokens, tokensSet, userTokens, registry, artifacts, history>>

\* POST /api/users/
RegisterUser(content) ==
    IF content.username \in DOMAIN users
    THEN /\ resp' = Answer("register_user", content.username, 0, 401,
                           "Username already exists")
         /\ UNCHANGED <<now, inflight, store, registry, artifacts, history>>
    ELSE IF RegisterKwargs \subseteq UserInitParams
    THEN \E h \in {Generate} \cap Hashes, microsecond \in Microseconds :
         /\ users' = SavedUsers(content.username,
                        [username |-> content.username, email |-> content.email,
                         password |-> PlainPw(content.password), enabled |-> StrBool(FALSE)])
         /\ usersSet' = usersSet \cup {UserKey(content.username)}
         /\ tokens' = tokens @@ (h :> [hash |-> h, created_at |-> now,
                                       microsecond |-> microsecond,
                                       user |-> content.username,
                                       expiration_time |-> DefaultExpiration])
         /\ tokensSet' = tokensSet \cup {TokenKey(h)}
         /\ userTokens' = [userTokens EXCEPT ![content.username] = <<h>> \o @]
         /\ lastIssued' = [lastIssued EXCEPT ![content.username] = h]
         /\ resp' = Answer("register_user", content.username, h, 201, "")
         /\ UNCHANGED <<now, inflight, registry, artifacts, invalidated, confirmed>>
    ELSE \* User() got an unexpected keyword argument 'password'
         /\ resp' = Answer("register_user", content.username, 0, 500, "TypeError")
         /\ UNCHANGED <<now, inflight, store, registry, artifacts, history>>

\* GET /api/users/<username>/confirm/<token>/
ConfirmUser(username, hash) ==
    /\ IF username \notin DOMAIN users
       THEN /\ resp' = Answer("confirm_user", username, hash, 404, "User not found")
            /\ UNCHANGED <<store, history>>
       ELSE IF UserToken(username) = TokenValueError
       THEN /\ resp' = Answer("confirm_user", username, hash, 500, "ValueError")
            /\ UNCHANGED <<store, history>>
       ELSE IF UserToken(username) = None
       THEN /\ resp' = Answer("confirm_user", username, hash, 400, "Invalid token")
            /\ UNCHANGED <<store, history>>
       ELSE IF UserToken(username).hash # hash \/ ~IsValid(UserToken(username))
       THEN /\ resp' = Answer("confirm_user", username, hash, 400, "Invalid token")
            /\ UNCHANGED <<store, history>>
       ELSE /\ users' = SavedUsers(username,
                            [users[username] EXCEPT !.enabled = StrBool(TRUE)])
            /\ usersSet' = usersSet \cup {UserKey(username)}
            /\ tokens' = InvalidatedTokens(UserToken(username).hash)
            /\ tokensSet' = tokensSet \cup {TokenKey(UserToken(username).hash)}
            /\ invalidated' = invalidated \cup {UserToken(username).hash}
            /\ confirmed' = confirmed \cup {hash}
            /\ resp' = Answer("confirm_user", username, hash, 200, "")
            /\ UNCHANGED <<userTokens, lastIssued>>
    /\ UNCHANGED <<now, inflight, registry, artifacts>>

\* ------------------------------------------------------------------ Napp
\* Python values of the metadata: a str, a list of str, None, and the str that
\* is the repr of a list (what redis hands back for a stored list)
PyStr(text) == [t |-> "str", s |-> text, l |-> <<>>]
PyList(items) == [t |-> "list", s |-> "", l |-> items]
PyRepr(items) == [t |-> "repr", s |-> "", l |-> items]
PyNone == [t |-> "none", s |-> "", l |-> <<>>]

\* bool(value)
Truthy(value) ==
    CASE value.t \in {"str", "html"} -> value.s # ""
      [] value.t = "list" -> value.l # <<>>
      [] value.t = "repr" -> TRUE
      [] OTHER -> FALSE

\* str(value), as redis-py writes a field
Str(value) ==
    CASE value.t = "list" -> PyRepr(value.l)
      [] value.t = "none" -> PyStr("None")
      [] OTHER -> value

\* Napp.schema, without the meta keys 'user' and 'required', in its written order
SchemaKeys == <<"name", "description", "long_description", "version", "author",
                "license", "git", "branch", "readme", "ofversion", "tags",
                "dependencies">>
Required == {"name", "description", "version", "author", "license", "git",
             "branch", "ofversion", "tags", "dependencies"}
ArrayKeys == {"ofversion", "tags", "dependencies"}
SchemaKeySet == {SchemaKeys[i] : i \in 1..Len(SchemaKeys)}

\* attributes.get(key)
Attr(attributes, key) ==
    IF key \in DOMAIN attributes THEN attributes[key] ELSE PyNone

\* what README.rst holds at the remote, when it can be reached
RemoteReadme == PyStr("remote readme")

\* docutils' rendering of the readme text
Html(source) == [t |-> "html", s |-> source.s, l |-> <<>>]

\* Napp.redis_key
NappKey(author, name) == <<"napp", author, name>>

\* Napp._populate_from_dict: [err, fields]; reachable says whether the remote
\* answers the readme fetch
Populate(attributes, reachable) ==
    LET missing(k) == k \in Required /\ k \notin DOMAIN attributes
        \* eval() of something that is no list text: None, or a plain word
        unevaluable(k) == /\ k \in ArrayKeys
                          /\ Attr(attributes, k).t \notin {"list", "repr"}
        bad == {i \in 1..Len(SchemaKeys) :
                    missing(SchemaKeys[i]) \/ unevaluable(SchemaKeys[i])}
        first == CHOOSE i \in bad : \A j \in bad : i <= j
        fields == [k \in SchemaKeySet |->
                     IF k \in ArrayKeys /\ Attr(attributes, k).t = "repr"
                     THEN PyList(Attr(attributes, k).l)
                     ELSE Attr(attributes, k)]
        \* update_readme_from_git builds the url from git, branch, author, name
        fetched == /\ reachable
                   /\ \A k \in {"git", "branch", "author", "name"} : fields[k].t = "str"
    IN  IF bad # {}
        THEN [err |-> IF missing(SchemaKeys[first]) THEN "InvalidNappMetaData"
                      ELSE IF Attr(attributes, SchemaKeys[first]).t = "none"
                           THEN "TypeError" ELSE "NameError",
              fields |-> fields]
        ELSE [err |-> "",
              fields |-> IF ~Truthy(fields["readme"]) /\ fetched
                         THEN [fields EXCEPT !["readme"] = RemoteReadme]
                         ELSE fields]

\* Napp.readme_rst
ReadmeRst(fields) ==
    IF Truthy(fields["readme"]) THEN fields["readme"] ELSE fields["long_description"]

\* Napp.as_dict, each field as redis stores it
AsDict(fields) ==
    [k \in SchemaKeySet \cup {"user"} |->
        CASE k = "user" -> Str(fields["author"])
          [] k = "readme" -> Html(ReadmeRst(fields))
          [] OTHER -> Str(fields[k])]

\* Napp.new_napp_from_dict(attributes, user): [err, napps, nappsSet, userNapps].
\* save() adds to both sets before as_dict() renders the readme, and rendering
\* a readme that is None ends in an exception
NewNapp(attributes, username, reachable) ==
    LET p == Populate(attributes, reachable)
        key == NappKey(p.fields["author"].s, p.fields["name"].s)
        kept == [napps |-> napps, nappsSet |-> nappsSet, userNapps |-> userNapps]
        indexed == [kept EXCEPT !.nappsSet = nappsSet \cup {key},
                                !.userNapps = [userNapps EXCEPT ![username] = @ \cup {key}]]
    IN  IF p.err # "" THEN [err |-> p.err] @@ kept
        ELSE IF p.fields["author"] # PyStr(username) THEN [err |-> "InvalidAuthor"] @@ kept
        ELSE IF ReadmeRst(p.fields).t # "str" THEN [err |-> "RenderError"] @@ indexed
        ELSE [err |-> ""] @@
             [indexed EXCEPT !.napps =
                 IF key \in DOMAIN napps
                 THEN [napps EXCEPT ![key] = AsDict(p.fields)]
                 ELSE napps @@ (key :> AsDict(p.fields))]

\* ------------------------------------------------------------------ api/napps.py
\* characters of a declared filename, one string each
ALLOWED_EXTENSIONS == {<<".", "n", "a", "p", "p">>}

\* filename.rsplit('.', 1)[1]: the text after the last '.'
RSplitExt(filename) ==
    LET dots == {i \in 1..Len(filename) : filename[i] = "."}
        last == CHOOSE i \in dots : \A j \in dots : j <= i
    IN  SubSeq(filename, last + 1, Len(filename))

\* _allowed_file
AllowedFile(filename) ==
    /\ \E i \in 1..Len(filename) : filename[i] = "."
    /\ RSplitExt(filename) \in ALLOWED_EXTENSIONS

\* _curr_date: the day of the clock reading
CurrDate == now

\* the artifact file <name><date>-<counter>.napp
ArtifactFile(name, date, counter) == [name |-> name, date |-> date, counter |-> counter]

\* os.listdir(author_repo)
Listing(author) == {f[2] : f \in {g \in repoFiles : g[1] = author}}

\* Python values of the counter: the int 0 it starts as, the digits group(1) gives
PyInt(n) == [t |-> "int", n |-> n]
PyDigits(n) == [t |-> "str", n |-> n]
Raised(error) == [t |-> error, n |-> 0]

\* a > b in Python 3: defined between two ints or two strs only (the digit texts
\* of the model have one digit, so their order is the numbers' order)
PyGt(a, b) ==
    IF a.t # b.t THEN Raised("TypeError")
    ELSE IF a.n > b.n THEN PyInt(1) ELSE PyInt(0)

\* the for loop of _napp_versioned_name over the files not yet visited
RECURSIVE ScanCounter(_, _, _, _)
ScanCounter(files, name, date, counter) ==
    IF files = {} \/ counter.t \notin {"int", "str"} THEN counter
    ELSE LET file == CHOOSE f \in files : TRUE
             matched == file.name = name /\ file.date = date
             greater == PyGt(PyDigits(file.counter), counter)
         IN  ScanCounter(files \ {file}, name, date,
                 IF ~matched THEN counter
                 ELSE IF greater.t = "TypeError" THEN greater
                 ELSE IF greater.n = 1 THEN PyDigits(file.counter)
                 ELSE counter)

\* the loop and the return of _napp_versioned_name over a listing: [err, file]
VersionedNameOf(listing, napp_name, date) ==
    LET counter == ScanCounter(listing, napp_name, date, PyInt(0))
    IN  IF counter.t = "TypeError"
        THEN [err |-> "TypeError", file |-> NoStored]
        ELSE IF counter.t = "int"
        THEN \* basename + counter: a str and an int do not concatenate
             [err |-> "TypeError", file |-> NoStored]
        ELSE [err |-> "", file |-> ArtifactFile(napp_name, date, counter.n)]

\* _napp_versioned_name: [err, file]
NappVersionedName(author, napp_name) ==
    IF author \notin repoDirs
    THEN [err |-> "FileNotFoundError", file |-> NoStored]
    ELSE VersionedNameOf(Listing(author), napp_name, CurrDate)

NappAnswer(op, username, filename, stored, status, body) ==
    [op |-> op, user |-> username, hash |-> 0, file |-> filename,
     stored |-> stored, status |-> status, body |-> body]

\* Napp.new_napp_from_dict(attributes, User.get(username)), the remote being
\* reachable or not
NewNappFromDictWhen(username, attributes, reachable) ==
    /\ username \in DOMAIN users
    /\ \E r \in {NewNapp(attributes, username, reachable)} :
         /\ napps' = r.napps
         /\ nappsSet' = r.nappsSet
         /\ userNapps' = r.userNapps
         /\ resp' = NappAnswer("new_napp_from_dict", username, <<>>, NoStored, 0, r.err)
    /\ UNCHANGED <<now, inflight, store, artifacts, history>>

\* Napp.new_napp_from_dict(attributes, User.get(username))
NewNappFromDict(username, attributes) ==
    \E reachable \in BOOLEAN : NewNappFromDictWhen(username, attributes, reachable)

\* the attributes the code reads off a dict object: its methods, never its keys
DictAttrs == {"get", "keys", "items", "values"}

\* napp.update_from_dict(attributes) on the napp object that
\* User.get(username).get_all_napps() built from the stored record <username>/<name>
UpdateFromDict(username, name, attributes) ==
    /\ username \in DOMAIN users
    /\ NappKey(username, name) \in userNapps[username] \cap DOMAIN napps
    /\ IF "author" \notin DictAttrs
       THEN \* attributes.author: 'dict' object has no attribute 'author'
            /\ resp' = NappAnswer("update_from_dict", username, <<>>,
                                  [NoStored EXCEPT !.name = name], 0, "AttributeError")
            /\ UNCHANGED registry
       ELSE IF Attr(attributes, "author") # PyStr(username)
       THEN /\ resp' = NappAnswer("update_from_dict", username, <<>>,
                                  [NoStored EXCEPT !.name = name], 0, "InvalidAuthor")
            /\ UNCHANGED registry
       ELSE \E reachable \in BOOLEAN :
            \E r \in {NewNapp(attributes, username, reachable)} :
              /\ napps' = r.napps
              /\ nappsSet' = r.nappsSet
              /\ userNapps' = r.userNapps
              /\ resp' = NappAnswer("update_from_dict", username, <<>>,
                                    [NoStored EXCEPT !.name = name], 0, r.err)
    /\ UNCHANGED <<now, inflight, store, artifacts, history>>

\* a handler that goes on to the file check without the permission check
RegisterNappUnchecked(username, attributes, filename) ==
    /\ username \in DOMAIN users
    /\ IF filename = <<>> \/ ~AllowedFile(filename)
       THEN resp' = NappAnswer("register_napp", username, filename, NoStored, 200,
                               "Invalid file/file extension.")
       ELSE resp' = NappAnswer("register_napp", username, filename, NoStored, 201,
                               "Napp succesfully created")
    /\ UNCHANGED <<now, inflight, store, registry, artifacts, history>>

\* POST /napps/ for the acting user the token names, with the uploaded file's
\* declared filename (<<>>: no file)
RegisterNapp(username, attributes, filename) ==
    /\ username \in DOMAIN users
    /\ IF ~EvalBool(users[username].enabled)
       THEN /\ resp' = NappAnswer("register_napp", username, filename, NoStored, 401, "Permission denied")
            /\ UNCHANGED <<registry, artifacts>>
       ELSE IF "author" \notin DOMAIN attributes
       THEN /\ resp' = NappAnswer("register_napp", username, filename, NoStored, 500, "KeyError")
            /\ UNCHANGED <<registry, artifacts>>
       ELSE IF attributes["author"] # PyStr(username)
       THEN /\ resp' = NappAnswer("register_napp", username, filename, NoStored, 401, "Permission denied")
            /\ UNCHANGED <<registry, artifacts>>
       ELSE IF filename = <<>> \/ ~AllowedFile(filename)
       THEN /\ resp' = NappAnswer("register_napp", username, filename, NoStored, 200, "Invalid file/file extension.")
            /\ UNCHANGED <<registry, artifacts>>
       ELSE \E reachable \in BOOLEAN :
            LET r == NewNapp(attributes, username, reachable)
                author == attributes["author"].s
                name == Attr(attributes, "name").s
                v == NappVersionedName(author, name)
            IN  /\ napps' = r.napps
                /\ nappsSet' = r.nappsSet
                /\ userNapps' = r.userNapps
                /\ IF r.err = "InvalidAuthor"
                   THEN /\ resp' = NappAnswer("register_napp", username, filename, NoStored, 401,
                                       "Permission denied. Invalid Author.")
                        /\ UNCHANGED artifacts
                   ELSE IF r.err = "InvalidNappMetaData"
                   THEN /\ resp' = NappAnswer("register_napp", username, filename, NoStored, 401,
                                       "Permission denied. Invalid metadata.")
                        /\ UNCHANGED artifacts
                   ELSE IF r.err # ""
                   THEN /\ resp' = NappAnswer("register_napp", username, filename, NoStored, 500, r.err)
                        /\ UNCHANGED artifacts
                   ELSE IF v.err # ""
                   THEN /\ resp' = NappAnswer("register_napp", username, filename, NoStored, 500, v.err)
                        /\ UNCHANGED artifacts
                   ELSE \* file.save, os.remove of the old pointer, os.symlink
                        /\ repoFiles' = repoFiles \cup {<<author, v.file>>}
                        /\ latest' = [k \in DOMAIN latest \cup {<<author, name>>} |->
                                        IF k = <<author, name>> THEN v.file
                                        ELSE latest[k]]
                        /\ UNCHANGED repoDirs
                        /\ resp' = NappAnswer("register_napp", username, filename, v.file, 201,
                                       "Napp succesfully created")
    /\ UNCHANGED <<now, inflight, store, history>>

\* register_napp's naming and saving of one upload, on its own
StoreUpload(author, name) ==
    /\ LET v == NappVersionedName(author, name)
       IN  IF v.err # ""
           THEN /\ resp' = [Called EXCEPT !.op = "store", !.user = author,
                                          !.status = 500, !.body = v.err]
                /\ UNCHANGED repoFiles
           ELSE /\ repoFiles' = repoFiles \cup {<<author, v.file>>}
                /\ resp' = [Called EXCEPT !.op = "store", !.user = author,
                                          !.stored = v.file, !.status = 201]
    /\ UNCHANGED <<now, inflight, store, registry, repoDirs, latest, history>>

\* con.hgetall(key): the stored fields, {} when there is no such key
HGetAll(key) == IF key \in DOMAIN napps THEN napps[key] ELSE <<>>

\* User.get_napp_by_name: [err, fields]; whatever populating the stored fields
\* raises comes out as NappsEntryDoesNotExists
GetNappByName(author, name, reachable) ==
    LET p == Populate(HGetAll(NappKey(author, name)), reachable)
    IN  IF p.err # "" THEN [err |-> "NappsEntryDoesNotExists", fields |-> p.fields]
        ELSE p

DeleteAnswer(author, name, token, status, body) ==
    [op |-> "delete_napp", user |-> author, hash |-> token, file |-> <<>>,
     stored |-> [NoStored EXCEPT !.name = name], status |-> status, body |-> body]

\* DELETE /napps/<author>/<name>/ with the token the request body carries
\* (0: the body has none)
DeleteNapp(author, name, token) ==
    /\ IF author \notin DOMAIN users
       THEN /\ resp' = DeleteAnswer(author, name, token, 404, "Author not found")
            /\ UNCHANGED registry
       ELSE IF \A r \in BOOLEAN : GetNappByName(author, name, r).err # ""
       THEN /\ resp' = DeleteAnswer(author, name, token, 404, "NApp not found")
            /\ UNCHANGED registry
       ELSE IF UserToken(author) = TokenValueError
       THEN /\ resp' = DeleteAnswer(author, name, token, 500, "ValueError")
            /\ UNCHANGED registry
       ELSE IF UserToken(author) = None
       THEN \* None.hash
            /\ resp' = DeleteAnswer(author, name, token, 500, "AttributeError")
            /\ UNCHANGED registry
       ELSE IF token # UserToken(author).hash
       THEN /\ resp' = DeleteAnswer(author, name, token, 404, "Napp can't be deleted by the author")
            /\ UNCHANGED registry
       ELSE \* napp.delete(): Napp has no attribute 'delete', and the handler
            \* catches NappsEntryDoesNotExists only
            /\ resp' = DeleteAnswer(author, name, token, 500, "AttributeError")
            /\ UNCHANGED registry
    /\ UNCHANGED <<now, inflight, store, artifacts, history>>

\* ------------------------------------------------------------------ inputs
\* a complete kytos.json for napp <author>/<name>
BaseContent(author, name, version) ==
    [name |-> PyStr(name), description |-> PyStr("d"),
     long_description |-> PyStr("ld"), version |-> PyStr(version),
     author |-> PyStr(author), license |-> PyStr("MIT"), git |-> PyStr("g.git"),
     branch |-> PyStr("master"), readme |-> PyStr("r"),
     ofversion |-> PyList(<<"0x01">>), tags |-> PyList(<<"t1", "t2">>),
     dependencies |-> PyList(<<>>)]

Without(attributes, keys) == [k \in DOMAIN attributes \ keys |-> attributes[k]]

\* the author the request bodies name
Authors == {"alice"}

\* the request bodies tried: complete ones, one with an empty readme, and ones
\* that lack tags, the readme texts, or the author
Contents ==
    UNION {
      { BaseContent(a, "foo", "1.0"),
        BaseContent(a, "foo", "2.0"),
        [BaseContent(a, "foo", "1.0") EXCEPT !["readme"] = PyStr("")],
        Without(BaseContent(a, "foo", "1.0"), {"tags"}),
        Without(BaseContent(a, "foo", "1.0"), {"readme", "long_description"}),
        Without(BaseContent(a, "foo", "1.0"), {"author"}) } : a \in Authors }

\* the declared filenames tried: foo.napp, foo.zip, foo, .napp, and no file
DeclaredFiles ==
    { <<"f", "o", "o", ".", "n", "a", "p", "p">>,
      <<"f", "o", "o", ".", "z", "i", "p">>,
      <<"f", "o", "o">>,
      <<".", "n", "a", "p", "p">>,
      <<>> }

\* what the repository directory may hold when the service starts: the code
\* never creates an author directory, the deployment does
RepoMenu ==
    { [dirs |-> {}, files |-> {}, latest |-> <<>>],
      [dirs |-> Usernames,
       files |-> {<<"alice", ArtifactFile("foo", 0, 0)>>},
       latest |-> (<<"alice", "foo">> :> ArtifactFile("foo", 0, 0))],
      [dirs |-> Usernames,
       files |-> {<<"alice", ArtifactFile("foo", 0, 0)>>,
                  <<"alice", ArtifactFile("foo", 0, 1)>>},
       latest |-> (<<"alice", "foo">> :> ArtifactFile("foo", 0, 0))] }

\* the clock moves on
Tick ==
    /\ now < MaxClock
    /\ now' = now + 1
    /\ resp' = Called
    /\ UNCHANGED <<store, registry, artifacts, history, inflight>>

Init ==
    /\ now = 0
    /\ users = <<>>
    /\ usersSet = {}
    /\ tokens = <<>>
    /\ tokensSet = {}
    /\ userTokens = [u \in Usernames |-> <<>>]
    /\ napps = <<>>
    /\ nappsSet = {}
    /\ userNapps = [u \in Usernames |-> {}]
    /\ repoDirs = {}
    /\ repoFiles = {}
    /\ latest = <<>>
    /\ invalidated = {}
    /\ confirmed = {}
    /\ lastIssued = [u \in Usernames |-> 0]
    /\ resp = Called
    /\ inflight = [r \in Requests |-> Idle]

\* Tokens are issued the way the one caller of create_token does (users.py:38,
\* no expiration_time given) and for one of the two users; the other user
\* takes part in every user operation.
Next ==
    \/ \E u \in Usernames, e \in Emails, p \in Passwords : CreateUser(u, e, p)
    \/ \E u \in Usernames, p \in Passwords : SetPassword(u, p)
    \/ \E u \in Authors, us \in Microseconds : CreateToken(u, DefaultExpiration, us)
    \/ \E h \in Hashes : Invalidate(h)
    \/ \E u \in Usernames : Enable(u)
    \/ \E u \in Usernames : Disable(u)
    \/ \E c \in RegContents : RegisterUser(c)
    \/ \E u \in Usernames, h \in Hashes : ConfirmUser(u, h)
    \/ Tick

Spec == Init /\ [][Next]_vars

\* ------------------------------------------------------------------ the registry
\* The napp registry and the artifact store, over users that are created and
\* enabled; the clock stands still.
InitNapps ==
    /\ now = 0
    /\ users = <<>>
    /\ usersSet = {}
    /\ tokens = <<>>
    /\ tokensSet = {}
    /\ userTokens = [u \in Usernames |-> <<>>]
    /\ napps = <<>>
    /\ nappsSet = {}
    /\ userNapps = [u \in Usernames |-> {}]
    /\ \E repo \in RepoMenu :
         /\ repoDirs = repo.dirs
         /\ repoFiles = repo.files
         /\ latest = repo.latest
    /\ invalidated = {}
    /\ confirmed = {}
    /\ lastIssued = [u \in Usernames |-> 0]
    /\ resp = Called
    /\ inflight = [r \in Requests |-> Idle]

NextNapps ==
    \/ \E u \in Usernames, e \in Emails, p \in Passwords : CreateUser(u, e, p)
    \/ \E u \in Usernames : Enable(u)
    \/ \E u \in Usernames, c \in Contents : NewNappFromDict(u, c)
    \/ \E u \in Usernames, c \in Contents, f \in DeclaredFiles : RegisterNapp(u, c, f)

SpecNapps == InitNapps /\ [][NextNapps]_vars

\* ------------------------------------------------------------------ the naming
\* _napp_versioned_name applied to uploads one after the other, over the
\* directories and the artifacts of day 0 that the repository may hold.
InitRepo ==
    /\ now = 0
    /\ users = <<>>
    /\ usersSet = {}
    /\ tokens = <<>>
    /\ tokensSet = {}
    /\ userTokens = [u \in Usernames |-> <<>>]
    /\ napps = <<>>
    /\ nappsSet = {}
    /\ userNapps = [u \in Usernames |-> {}]
    /\ repoDirs \in SUBSET Usernames
    /\ repoFiles \in {fs \in SUBSET (repoDirs \X {ArtifactFile(n, 0, c) :
                                         n \in Names, c \in 0..MaxCounter}) :
                         Cardinality(fs) <= MaxFiles}
    /\ latest = <<>>
    /\ invalidated = {}
    /\ confirmed = {}
    /\ lastIssued = [u \in Usernames |-> 0]
    /\ resp = Called
    /\ inflight = [r \in Requests |-> Idle]

NextVersion ==
    \/ \E a \in Usernames, n \in Names : StoreUpload(a, n)
    \/ Tick

SpecVersion == InitRepo /\ [][NextVersion]_vars

\* ------------------------------------------------------------------ the deletion
\* Napps are created and deleted while tokens of their author are issued and age.
DelContents == {BaseContent(a, n, "1.0") : a \in Authors, n \in Names}

\* the token a delete request presents: a hash, or none
Presented == Hashes \cup {0}

NextDelete ==
    \/ \E u \in Usernames, e \in Emails, p \in Passwords : CreateUser(u, e, p)
    \/ \E u \in Authors, t \in TTLs, us \in Microseconds : CreateToken(u, t, us)
    \/ \E u \in Usernames, c \in DelContents : NewNappFromDict(u, c)
    \/ \E a \in Usernames, n \in Names, t \in Presented : DeleteNapp(a, n, t)
    \/ Tick

SpecDelete == Init /\ [][NextDelete]_vars

\* ------------------------------------------------------------------ the store writes
\* The saves one store write at a time: each request holds the object it is
\* saving and stands before its next con.* call, other requests run in between,
\* and a request may die where it stands.
Begun(r, op, step) == [Idle EXCEPT !.op = op, !.step = step]

At(r, op, step) == inflight[r].op = op /\ inflight[r].step = step

Goto(r, step) == inflight' = [inflight EXCEPT ![r].step = step]

Finish(r) == inflight' = [inflight EXCEPT ![r] = Idle]

\* User(username, email, ...).set_password(password), up to save()
BeginSetPassword(r, username, email, password) ==
    /\ inflight[r] = Idle
    /\ inflight' = [inflight EXCEPT ![r] =
            [Begun(r, "user_save", "sadd") EXCEPT
                !.user = username,
                !.uobj = [username |-> username, email |-> email,
                          password |-> HashPw(password), enabled |-> StrBool(FALSE)]]]
    /\ UNCHANGED <<now, store, registry, artifacts, history, resp>>

\* User.get(username).enable(), up to save(): the object is the record as read
BeginEnable(r, username) ==
    /\ inflight[r] = Idle
    /\ username \in DOMAIN users
    /\ inflight' = [inflight EXCEPT ![r] =
            [Begun(r, "user_save", "sadd") EXCEPT
                !.user = username,
                !.uobj = [users[username] EXCEPT !.enabled = StrBool(TRUE)]]]
    /\ UNCHANGED <<now, store, registry, artifacts, history, resp>>

\* User.save: con.sadd("users", key)
UserSadd(r) ==
    /\ At(r, "user_save", "sadd")
    /\ usersSet' = usersSet \cup {UserKey(inflight[r].user)}
    /\ Goto(r, "hmset")
    /\ UNCHANGED <<now, users, tokens, tokensSet, userTokens, registry, artifacts, history, resp>>

\* User.save: con.hmset(key, as_dict)
UserHmset(r) ==
    /\ At(r, "user_save", "hmset")
    /\ users' = SavedUsers(inflight[r].user, inflight[r].uobj)
    /\ resp' = Answer("user_save", inflight[r].user, 0, 0, "")
    /\ Finish(r)
    /\ UNCHANGED <<now, usersSet, tokens, tokensSet, userTokens, registry, artifacts, history>>

\* User.get(username).create_token(ttl), the clock read at microsecond, up to
\* token.save()
BeginCreateToken(r, username, ttl, microsecond) ==
    /\ inflight[r] = Idle
    /\ username \in DOMAIN users
    /\ \E h \in {Generate} \cap Hashes :
         inflight' = [inflight EXCEPT ![r] =
            [Begun(r, "create_token", "sadd") EXCEPT
                !.user = username, !.hash = h,
                !.tobj = [hash |-> h, created_at |-> now,
                          microsecond |-> microsecond, user |-> username,
                          expiration_time |-> ttl]]]
    /\ UNCHANGED <<now, store, registry, artifacts, history, resp>>

\* create_token with the key pushed onto the user's list before token.save()
\* has written the record
TokenSaddAfterLpush(r) ==
    /\ At(r, "create_token", "sadd")
    /\ tokensSet' = tokensSet \cup {TokenKey(inflight[r].hash)}
    /\ userTokens' = [userTokens EXCEPT ![inflight[r].user] = <<inflight[r].hash>> \o @]
    /\ Goto(r, "hmset")
    /\ UNCHANGED <<now, users, usersSet, tokens, registry, artifacts, history, resp>>

\* Token.save: con.sadd("tokens", key)
TokenSadd(r) ==
    /\ At(r, "create_token", "sadd")
    /\ tokensSet' = tokensSet \cup {TokenKey(inflight[r].hash)}
    /\ Goto(r, "hmset")
    /\ UNCHANGED <<now, users, usersSet, tokens, userTokens, registry, artifacts, history, resp>>

\* Token.save: con.hmset(key, as_dict)
TokenHmset(r) ==
    /\ At(r, "create_token", "hmset")
    /\ tokens' = tokens @@ (inflight[r].hash :> inflight[r].tobj)
    /\ Goto(r, "lpush")
    /\ UNCHANGED <<now, users, usersSet, tokensSet, userTokens, registry, artifacts, history, resp>>

\* create_token: con.lpush("user:<username>:tokens", key)
TokenLpush(r) ==
    /\ At(r, "create_token", "lpush")
    /\ userTokens' = [userTokens EXCEPT ![inflight[r].user] = <<inflight[r].hash>> \o @]
    /\ lastIssued' = [lastIssued EXCEPT ![inflight[r].user] = inflight[r].hash]
    /\ resp' = Answer("create_token", inflight[r].user, inflight[r].hash, 0, "")
    /\ Finish(r)
    /\ UNCHANGED <<now, users, usersSet, tokens, tokensSet, registry, artifacts,
                   invalidated, confirmed>>

\* Napp.new_napp_from_dict(attributes, User.get(username)), up to save(): what
\* populating or the author check raises ends the call here
BeginNewNapp(r, username, attributes, reachable) ==
    /\ inflight[r] = Idle
    /\ username \in DOMAIN users
    /\ LET p == Populate(attributes, reachable)
           err == IF p.err # "" THEN p.err
                  ELSE IF p.fields["author"] # PyStr(username) THEN "InvalidAuthor"
                  ELSE ""
       IN  IF err # ""
           THEN /\ resp' = NappAnswer("new_napp_from_dict", username, <<>>, NoStored, 0, err)
                /\ UNCHANGED inflight
           ELSE /\ inflight' = [inflight EXCEPT ![r] =
                        [Begun(r, "napp_save", "sadd_napps") EXCEPT
                            !.user = p.fields["author"].s, !.name = p.fields["name"].s,
                            !.fields = p.fields]]
                /\ UNCHANGED resp
    /\ UNCHANGED <<now, store, registry, artifacts, history>>

\* Napp.save: con.sadd("napps", key)
NappSaddNapps(r) ==
    /\ At(r, "napp_save", "sadd_napps")
    /\ nappsSet' = nappsSet \cup {NappKey(inflight[r].user, inflight[r].name)}
    /\ Goto(r, "sadd_user_napps")
    /\ UNCHANGED <<now, store, napps, userNapps, artifacts, history, resp>>

\* Napp.save: con.sadd("user:<author>:napps", key)
NappSaddUserNapps(r) ==
    /\ At(r, "napp_save", "sadd_user_napps")
    /\ userNapps' = [userNapps EXCEPT ![inflight[r].user] =
                        @ \cup {NappKey(inflight[r].user, inflight[r].name)}]
    /\ Goto(r, "hmset")
    /\ UNCHANGED <<now, store, napps, nappsSet, artifacts, history, resp>>

\* Napp.save: con.hmset(key, self.as_dict()); as_dict renders the readme first
NappHmset(r) ==
    /\ At(r, "napp_save", "hmset")
    /\ LET key == NappKey(inflight[r].user, inflight[r].name)
           fields == inflight[r].fields
       IN  IF ReadmeRst(fields).t # "str"
           THEN /\ resp' = NappAnswer("new_napp_from_dict", inflight[r].user, <<>>,
                                      NoStored, 0, "RenderError")
                /\ UNCHANGED napps
           ELSE /\ napps' = IF key \in DOMAIN napps
                            THEN [napps EXCEPT ![key] = AsDict(fields)]
                            ELSE napps @@ (key :> AsDict(fields))
                /\ resp' = NappAnswer("new_napp_from_dict", inflight[r].user, <<>>,
                                      NoStored, 0, "")
    /\ Finish(r)
    /\ UNCHANGED <<now, store, nappsSet, userNapps, artifacts, history>>

\* the process serving the request dies between two store writes
Crash(r) ==
    /\ inflight[r] # Idle
    /\ resp' = [Called EXCEPT !.op = "crash", !.user = inflight[r].user]
    /\ Finish(r)
    /\ UNCHANGED <<now, store, registry, artifacts, history>>

\* the bodies the saves are followed with: a complete one, and one that has
\* neither readme nor long_description
SaveContents ==
    { BaseContent("alice", "foo", "1.0"),
      Without(BaseContent("alice", "foo", "1.0"), {"readme", "long_description"}) }

NextSave ==
    \/ \E r \in Requests, u \in Authors, e \in Emails, p \in Passwords :
          BeginSetPassword(r, u, e, p)
    \/ \E r \in Requests, u \in Authors : BeginEnable(r, u)
    \/ \E r \in Requests : UserSadd(r)
    \/ \E r \in Requests : UserHmset(r)
    \/ \E r \in Requests, u \in Authors, us \in Microseconds :
          BeginCreateToken(r, u, DefaultExpiration, us)
    \/ \E r \in Requests : TokenSadd(r)
    \/ \E r \in Requests : TokenHmset(r)
    \/ \E r \in Requests : TokenLpush(r)
    \/ \E r \in Requests, u \in Authors, c \in SaveContents : BeginNewNapp(r, u, c, FALSE)
    \/ \E r \in Requests : NappSaddNapps(r)
    \/ \E r \in Requests : NappSaddUserNapps(r)
    \/ \E r \in Requests : NappHmset(r)
    \/ \E r \in Requests : Crash(r)

SpecSave == Init /\ [][NextSave]_vars

\* ------------------------------------------------------------------ the uploads
\* register_napp from its naming of the artifact on (lines 130-147), one file
\* system call at a time, for requests that run side by side.
UploadAnswer(op, author, name, file, status, body) ==
    [op |-> op, user |-> author, hash |-> 0, file |-> <<>>,
     stored |-> IF file = NoFile THEN [NoStored EXCEPT !.name = name] ELSE file,
     status |-> status, body |-> body]

\* napp_filename = _napp_versioned_name(author, name): entered
BeginUpload(r, author, name) ==
    /\ inflight[r] = Idle
    /\ inflight' = [inflight EXCEPT ![r] =
            [Begun(r, "upload", "listdir") EXCEPT !.user = author, !.name = name]]
    /\ UNCHANGED <<now, store, registry, artifacts, history, resp>>

\* _napp_versioned_name: the basename of the day, and os.listdir(author_repo)
Listdir(r) ==
    /\ At(r, "upload", "listdir")
    /\ IF inflight[r].user \notin repoDirs
       THEN /\ resp' = UploadAnswer("upload", inflight[r].user, inflight[r].name,
                                    NoFile, 500, "FileNotFoundError")
            /\ Finish(r)
       ELSE /\ inflight' = [inflight EXCEPT ![r].step = "save",
                                            ![r].listing = Listing(inflight[r].user),
                                            ![r].file = [NoFile EXCEPT !.date = CurrDate]]
            /\ UNCHANGED resp
    /\ UNCHANGED <<now, store, registry, artifacts, history>>

\* the loop over the listing, the filename, and file.save(path)
FileSave(r) ==
    /\ At(r, "upload", "save")
    /\ LET v == VersionedNameOf(inflight[r].listing, inflight[r].name, inflight[r].file.date)
       IN  IF v.err # ""
           THEN /\ resp' = UploadAnswer("upload", inflight[r].user, inflight[r].name,
                                        NoFile, 500, v.err)
                /\ Finish(r)
                /\ UNCHANGED repoFiles
           ELSE /\ repoFiles' = repoFiles \cup {<<inflight[r].user, v.file>>}
                /\ inflight' = [inflight EXCEPT ![r].step = "remove", ![r].file = v.file]
                /\ UNCHANGED resp
    /\ UNCHANGED <<now, store, registry, repoDirs, latest, history>>

\* the update of the latest pointer (lines 137-145) for an artifact that is stored
BeginPointer(r, author, name, file) ==
    /\ inflight[r] = Idle
    /\ <<author, file>> \in repoFiles
    /\ file.name = name
    /\ inflight' = [inflight EXCEPT ![r] =
            [Begun(r, "upload", "remove") EXCEPT !.user = author, !.name = name,
                                                 !.file = file]]
    /\ UNCHANGED <<now, store, registry, artifacts, history, resp>>

\* os.remove(<name>-latest.napp), FileNotFoundError passed over
PointerRemove(r) ==
    /\ At(r, "upload", "remove")
    /\ latest' = [k \in DOMAIN latest \ {<<inflight[r].user, inflight[r].name>>} |-> latest[k]]
    /\ Goto(r, "symlink")
    /\ UNCHANGED <<now, store, registry, repoDirs, repoFiles, history, resp>>

\* a pointer update that passes over FileExistsError and leaves the pointer
\* another request has put back
PointerSymlinkKeepsExisting(r) ==
    /\ At(r, "upload", "symlink")
    /\ LET key == <<inflight[r].user, inflight[r].name>>
       IN  /\ latest' = IF key \in DOMAIN latest THEN latest
                         ELSE latest @@ (key :> inflight[r].file)
           /\ resp' = UploadAnswer("update_latest_pointer", inflight[r].user,
                                   inflight[r].name, inflight[r].file, 201,
                                   "Napp succesfully created")
    /\ Finish(r)
    /\ UNCHANGED <<now, store, registry, repoDirs, repoFiles, history>>

\* os.symlink(napp_filename, <name>-latest.napp): FileExistsError when the
\* pointer is there
PointerSymlink(r) ==
    /\ At(r, "upload", "symlink")
    /\ LET key == <<inflight[r].user, inflight[r].name>>
       IN  IF key \in DOMAIN latest
           THEN /\ resp' = UploadAnswer("update_latest_pointer", inflight[r].user,
                                        inflight[r].name, inflight[r].file, 500,
                                        "FileExistsError")
                /\ UNCHANGED latest
           ELSE /\ latest' = latest @@ (key :> inflight[r].file)
                /\ resp' = UploadAnswer("update_latest_pointer", inflight[r].user,
                                        inflight[r].name, inflight[r].file, 201,
                                        "Napp succesfully created")
    /\ Finish(r)
    /\ UNCHANGED <<now, store, registry, repoDirs, repoFiles, history>>

\* the packages uploaded side by side
UploadNames == {"foo"}

NextUpload ==
    \/ \E r \in Requests, a \in Usernames, n \in UploadNames : BeginUpload(r, a, n)
    \/ \E r \in Requests : Listdir(r)
    \/ \E r \in Requests : FileSave(r)
    \/ \E r \in Requests, a \in Usernames, n \in UploadNames :
          \E f \in {g[2] : g \in repoFiles} : BeginPointer(r, a, n, f)
    \/ \E r \in Requests : PointerRemove(r)
    \/ \E r \in Requests : PointerSymlink(r)
    \/ \E r \in Requests : Crash(r)
    \/ Tick

SpecUpload == InitNapps /\ [][NextUpload]_vars

\* ------------------------------------------------------------------ the confirmations
\* confirm_user one store command at a time.  Each user.token of the handler is
\* a lrange of the list head, a hgetall of that token and a hgetall of its
\* owner; `read` counts
\* them: 1 in `not user.token`, 2 in user.token.hash, 3 in
\* user.token.is_valid(), 4 in user.token.invalidate().
ConfirmAnswer(r, status, body) ==
    Answer("confirm_user", inflight[r].user, inflight[r].hash, status, body)

\* GET /api/users/<username>/confirm/<token>/ arrives
BeginConfirm(r, username, hash) ==
    /\ inflight[r] = Idle
    /\ inflight' = [inflight EXCEPT ![r] =
            [Begun(r, "confirm", "get") EXCEPT !.user = username, !.hash = hash]]
    /\ UNCHANGED <<now, store, registry, artifacts, history, resp>>

\* user = User.get(username)
ConfirmGet(r) ==
    /\ At(r, "confirm", "get")
    /\ IF inflight[r].user \notin DOMAIN users
       THEN /\ resp' = ConfirmAnswer(r, 404, "User not found")
            /\ Finish(r)
       ELSE /\ inflight' = [inflight EXCEPT ![r].step = "lrange", ![r].read = 1,
                                            ![r].uobj = users[inflight[r].user]]
            /\ UNCHANGED resp
    /\ UNCHANGED <<now, store, registry, artifacts, history>>

\* User.token: con.lrange("user:<username>:tokens", 0, 0)[0]
ConfirmLrange(r) ==
    /\ At(r, "confirm", "lrange")
    /\ IF userTokens[inflight[r].user] = <<>>
       THEN \* IndexError: the token is None
            IF inflight[r].read = 1
            THEN /\ resp' = ConfirmAnswer(r, 400, "Invalid token")
                 /\ Finish(r)
            ELSE /\ resp' = ConfirmAnswer(r, 500, "AttributeError")
                 /\ Finish(r)
       ELSE /\ inflight' = [inflight EXCEPT ![r].step = "hgetall",
                                            ![r].key = Head(userTokens[inflight[r].user])]
            /\ UNCHANGED resp
    /\ UNCHANGED <<now, store, registry, artifacts, history>>

\* User.token: con.hgetall(key), the token's fields as stored, and from_dict's
\* strptime of created_at, whose ValueError nothing catches
ConfirmHgetall(r) ==
    /\ At(r, "confirm", "hgetall")
    /\ IF TokenFromDict(tokens[inflight[r].key]) = TokenValueError
       THEN /\ resp' = ConfirmAnswer(r, 500, "ValueError")
            /\ Finish(r)
       ELSE /\ inflight' = [inflight EXCEPT ![r].step = "hgetall_user",
                                            ![r].tobj = tokens[inflight[r].key]]
            /\ UNCHANGED resp
    /\ UNCHANGED <<now, store, registry, artifacts, history>>

\* User.token: Token.from_dict -> User.get(attributes['user']), a hgetall of the
\* owner's record; then is_valid at the clock as it reads now; and what the
\* handler does with the token it got
ConfirmHgetallUser(r) ==
    /\ At(r, "confirm", "hgetall_user")
    /\ LET token == inflight[r].tobj
           read == inflight[r].read
       IN  IF token.user \notin DOMAIN users
           THEN \* User.get raises, and nothing catches it
                /\ resp' = ConfirmAnswer(r, 500, "NappsEntryDoesNotExists")
                /\ Finish(r)
           ELSE IF ~IsValid(token)
           THEN \* the token is None
                IF read = 1
                THEN /\ resp' = ConfirmAnswer(r, 400, "Invalid token")
                     /\ Finish(r)
                ELSE \* None.hash, None.is_valid(), None.invalidate()
                     /\ resp' = ConfirmAnswer(r, 500, "AttributeError")
                     /\ Finish(r)
           ELSE IF read = 2 /\ token.hash # inflight[r].hash
           THEN /\ resp' = ConfirmAnswer(r, 400, "Invalid token")
                /\ Finish(r)
           ELSE IF read \in {1, 2}
           THEN /\ inflight' = [inflight EXCEPT ![r].step = "lrange", ![r].read = read + 1]
                /\ UNCHANGED resp
           ELSE IF read = 3
           THEN \* user.enable(): self.enabled = True, save()
                /\ inflight' = [inflight EXCEPT ![r].step = "enable_sadd",
                                                ![r].uobj.enabled = StrBool(TRUE)]
                /\ UNCHANGED resp
           ELSE \* invalidate(): self.expiration_time = 0, save()
                /\ inflight' = [inflight EXCEPT ![r].step = "invalidate_sadd",
                                                ![r].tobj = [token EXCEPT !.expiration_time = 0]]
                /\ UNCHANGED resp
    /\ UNCHANGED <<now, store, registry, artifacts, history>>

\* user.enable() -> User.save: con.sadd("users", key)
ConfirmEnableSadd(r) ==
    /\ At(r, "confirm", "enable_sadd")
    /\ usersSet' = usersSet \cup {UserKey(inflight[r].user)}
    /\ Goto(r, "enable_hmset")
    /\ UNCHANGED <<now, users, tokens, tokensSet, userTokens, registry, artifacts, history, resp>>

\* user.enable() -> User.save: con.hmset(key, as_dict), the object as it was read
ConfirmEnableHmset(r) ==
    /\ At(r, "confirm", "enable_hmset")
    /\ users' = SavedUsers(inflight[r].user, inflight[r].uobj)
    /\ inflight' = [inflight EXCEPT ![r].step = "lrange", ![r].read = 4]
    /\ UNCHANGED <<now, usersSet, tokens, tokensSet, userTokens, registry, artifacts, history, resp>>

\* token.invalidate() -> Token.save: con.sadd("tokens", key)
ConfirmInvalidateSadd(r) ==
    /\ At(r, "confirm", "invalidate_sadd")
    /\ tokensSet' = tokensSet \cup {TokenKey(inflight[r].tobj.hash)}
    /\ Goto(r, "invalidate_hmset")
    /\ UNCHANGED <<now, users, usersSet, tokens, userTokens, registry, artifacts, history, resp>>

\* token.invalidate() -> Token.save: con.hmset(key, as_dict); send_welcome;
\* return '', 200
ConfirmInvalidateHmset(r) ==
    /\ At(r, "confirm", "invalidate_hmset")
    /\ tokens' = [tokens EXCEPT ![inflight[r].tobj.hash] = inflight[r].tobj]
    /\ invalidated' = invalidated \cup {inflight[r].tobj.hash}
    /\ confirmed' = confirmed \cup {inflight[r].hash}
    /\ resp' = ConfirmAnswer(r, 200, "")
    /\ Finish(r)
    /\ UNCHANGED <<now, users, usersSet, tokensSet, userTokens, registry, artifacts, lastIssued>>

\* the user is saved once, tokens are issued and confirmations arrive, all side
\* by side with the clock
NextConfirm ==
    \/ \E r \in Requests, u \in Authors \ DOMAIN users, e \in Emails, p \in Passwords :
          BeginSetPassword(r, u, e, p)
    \/ \E r \in Requests : UserSadd(r)
    \/ \E r \in Requests : UserHmset(r)
    \/ \E r \in Requests, u \in Authors, us \in Microseconds :
          BeginCreateToken(r, u, DefaultExpiration, us)
    \/ \E r \in Requests : TokenSadd(r)
    \/ \E r \in Requests : TokenHmset(r)
    \/ \E r \in Requests : TokenLpush(r)
    \/ \E r \in Requests, u \in Authors, h \in Hashes : BeginConfirm(r, u, h)
    \/ \E r \in Requests : ConfirmGet(r)
    \/ \E r \in Requests : ConfirmLrange(r)
    \/ \E r \in Requests : ConfirmHgetall(r)
    \/ \E r \in Requests : ConfirmHgetallUser(r)
    \/ \E r \in Requests : ConfirmEnableSadd(r)
    \/ \E r \in Requests : ConfirmEnableHmset(r)
    \/ \E r \in Requests : ConfirmInvalidateSadd(r)
    \/ \E r \in Requests : ConfirmInvalidateHmset(r)
    \/ Tick

SpecConfirm == Init /\ [][NextConfirm]_vars

\* ------------------------------------------------------------------ the token lists
\* Token.get(hash): con.hgetall("token:<hash>"), the token's fields as stored,
\* and from_dict's strptime of created_at
BeginInvalidate(r, hash) ==
    /\ inflight[r] = Idle
    /\ IF hash \in DOMAIN tokens /\ TokenFromDict(tokens[hash]) = TokenValueError
       THEN /\ resp' = Answer("invalidate", tokens[hash].user, hash, 500, "ValueError")
            /\ UNCHANGED inflight
       ELSE IF hash \in DOMAIN tokens
       THEN /\ inflight' = [inflight EXCEPT ![r] =
                    [Begun(r, "invalidate", "get_user") EXCEPT
                        !.user = tokens[hash].user, !.hash = hash,
                        !.tobj = tokens[hash]]]
            /\ UNCHANGED resp
       ELSE /\ resp' = Answer("invalidate", "", hash, 0, "NappsEntryDoesNotExists")
            /\ UNCHANGED inflight
    /\ UNCHANGED <<now, store, registry, artifacts, history>>

\* Token.from_dict -> User.get(attributes['user']), a hgetall of the owner's
\* record; then invalidate(): expiration_time = 0, up to save()
InvalidateGetUser(r) ==
    /\ At(r, "invalidate", "get_user")
    /\ IF inflight[r].user \in DOMAIN users
       THEN /\ inflight' = [inflight EXCEPT ![r].step = "sadd",
                                            ![r].tobj.expiration_time = 0]
            /\ UNCHANGED resp
       ELSE /\ resp' = Answer("invalidate", inflight[r].user, inflight[r].hash, 0,
                              "NappsEntryDoesNotExists")
            /\ Finish(r)
    /\ UNCHANGED <<now, store, registry, artifacts, history>>

\* Token.save: con.sadd("tokens", key)
InvalidateSadd(r) ==
    /\ At(r, "invalidate", "sadd")
    /\ tokensSet' = tokensSet \cup {TokenKey(inflight[r].hash)}
    /\ Goto(r, "hmset")
    /\ UNCHANGED <<now, users, usersSet, tokens, userTokens, registry, artifacts, history, resp>>

\* Token.save: con.hmset(key, as_dict)
InvalidateHmset(r) ==
    /\ At(r, "invalidate", "hmset")
    /\ tokens' = [tokens EXCEPT ![inflight[r].hash] = inflight[r].tobj]
    /\ invalidated' = invalidated \cup {inflight[r].hash}
    /\ resp' = Answer("invalidate", inflight[r].user, inflight[r].hash, 0, "")
    /\ Finish(r)
    /\ UNCHANGED <<now, users, usersSet, tokensSet, userTokens, registry, artifacts,
                   confirmed, lastIssued>>

\* registrations, user saves, token issues and invalidations side by side
NextTokens ==
    \/ \E c \in RegContents : RegisterUser(c)
    \/ \E r \in Requests, u \in Usernames, e \in Emails, p \in Passwords :
          BeginSetPassword(r, u, e, p)
    \/ \E r \in Requests : UserSadd(r)
    \/ \E r \in Requests : UserHmset(r)
    \/ \E r \in Requests, u \in Usernames, us \in Microseconds :
          BeginCreateToken(r, u, DefaultExpiration, us)
    \/ \E r \in Requests : TokenSadd(r)
    \/ \E r \in Requests : TokenHmset(r)
    \/ \E r \in Requests : TokenLpush(r)
    \/ \E r \in Requests, h \in Hashes : BeginInvalidate(r, h)
    \/ \E r \in Requests : InvalidateGetUser(r)
    \/ \E r \in Requests : InvalidateSadd(r)
    \/ \E r \in Requests : InvalidateHmset(r)

SpecTokens == Init /\ [][NextTokens]_vars

\* ------------------------------------------------------------------ the metadata
\* Creates and updates over bodies that are complete, that name another author,
\* that give a required field an empty value or leave it out, that repeat an
\* element of an array, and that come without a readme.
MetaContents ==
    LET base == BaseContent("alice", "foo", "1.0")
    IN  { base,
          BaseContent("alice", "foo", "2.0"),
          BaseContent("bob", "foo", "1.0"),
          [base EXCEPT !["description"] = PyStr("")],
          [base EXCEPT !["tags"] = PyList(<<>>)],
          [base EXCEPT !["tags"] = PyList(<<"t1", "t2", "t1">>)],
          [base EXCEPT !["ofversion"] = PyList(<<"0x01", "0x01">>)],
          [base EXCEPT !["readme"] = PyStr("")],
          [Without(base, {"long_description"}) EXCEPT !["readme"] = PyStr("")],
          Without(base, {"readme"}),
          Without(base, {"tags"}) }

NextMeta ==
    \/ \E u \in Usernames, e \in Emails, p \in Passwords : CreateUser(u, e, p)
    \/ \E u \in Usernames, c \in MetaContents : NewNappFromDict(u, c)
    \/ \E u \in Usernames, n \in Names, c \in MetaContents : UpdateFromDict(u, n, c)

SpecMeta == Init /\ [][NextMeta]_vars
\* ================================================================== claims
\* The token the claims call "pushed last": the one create_token issued last.
LastPushed(username) == lastIssued[username]

\* The token the claims call a user's current token: the one at the head of the
\* user's token list if it is valid, none otherwise.
CurrentToken(username) ==
    IF userTokens[username] = <<>> THEN None
    ELSE IF IsValid(tokens[Head(userTokens[username])])
         THEN tokens[Head(userTokens[username])] ELSE None

\* C1: a register call for a username that is already registered answers
\* "Username already exists" (DuplicateEntry) and leaves the user records, the
\* users index, the token records and the token lists as they were.
C1_DuplicateRegisterRejected ==
    [][resp'.op = "register_user" =>
       \A c \in RegContents :
         (c.username \in DOMAIN users /\ RegisterUser(c))
         => /\ resp'.status = 401
            /\ resp'.body = "Username already exists"
            /\ users' = users
            /\ usersSet' = usersSet
            /\ userTokens' = userTokens
            /\ tokens' = tokens]_vars

C1_Witness ==
    /\ resp.op = "register_user"
    /\ resp.status = 401
    /\ resp.user \in DOMAIN users
    /\ EvalBool(users[resp.user].enabled)
    /\ userTokens[resp.user] # <<>>

\* C2: a register call for a username not in the store succeeds, and afterwards
\* the user record exists with enabled = false and the user's current token is a
\* valid token owned by that user.
C2_RegisterCreatesDisabledUser ==
    [][resp'.op = "register_user" =>
       \A c \in RegContents :
         (c.username \notin DOMAIN users /\ RegisterUser(c))
         => /\ resp'.status = 201
            /\ c.username \in DOMAIN users'
            /\ ~EvalBool(users'[c.username].enabled)
            /\ userTokens'[c.username] # <<>>
            /\ LET token == tokens'[Head(userTokens'[c.username])]
               IN  /\ token.user = c.username
                   /\ now' <= token.created_at + token.expiration_time]_vars

\* C3: confirm succeeds only if the user exists, the token pushed last is valid
\* and the presented hash is that token's hash; with a matching hash and a
\* current token that is expired or was invalidated, it answers "Invalid token"
\* and leaves the enabled flag as it was.
C3_ConfirmNeedsValidCurrentToken ==
    [][resp'.op = "confirm_user" =>
       \A u \in {resp'.user}, h \in {resp'.hash} :
         ConfirmUser(u, h)
         => /\ resp'.status = 200
               => /\ u \in DOMAIN users
                  /\ LastPushed(u) = h
                  /\ IsValid(tokens[h])
            /\ (/\ u \in DOMAIN users
                /\ LastPushed(u) = h
                /\ (~IsValid(tokens[h]) \/ h \in invalidated))
               => /\ resp'.status = 400
                  /\ resp'.body = "Invalid token"
                  /\ users'[u].enabled = users[u].enabled]_vars

\* C4: after a confirm that answers success the persisted user is enabled and
\* the confirmed token is no longer valid, and a confirm for the same user
\* presenting a hash that an earlier confirm succeeded with answers "Invalid token".
C4_ConfirmIsSingleUse ==
    [][resp'.op = "confirm_user" =>
       \A u \in {resp'.user}, h \in {resp'.hash} :
         ConfirmUser(u, h)
         => /\ resp'.status = 200
               => /\ EvalBool(users'[u].enabled)
                  /\ ~(now' <= tokens'[h].created_at + tokens'[h].expiration_time)
            /\ (h \in confirmed /\ tokens[h].user = u)
               => /\ resp'.status = 400
                  /\ resp'.body = "Invalid token"]_vars

\* C5: once invalidate was applied to a token, is_valid is false for it in every
\* later state, at every clock reading from its creation instant on.
C5_InvalidatedNeverValid ==
    \A h \in invalidated : ~IsValid(tokens[h])

\* C6: create_token is never refused, and the current token of a user is the
\* token pushed last if that one is valid, and none otherwise, whatever older
\* tokens of the user are still valid.
C6_CurrentTokenIsLastPushed ==
    \A u \in DOMAIN users :
        /\ UserToken(u) =
              IF LastPushed(u) = 0 THEN None
              ELSE IF IsValid(tokens[LastPushed(u)])
                   THEN tokens[LastPushed(u)] ELSE None
        /\ \A ttl \in TTLs, us \in Microseconds :
              Cardinality(DOMAIN tokens) < MaxTokens => ENABLED CreateToken(u, ttl, us)

\* C7: a register-napp request whose acting user is not enabled, or whose
\* metadata author differs from the acting user's username, is answered
\* "Permission denied" and leaves the napp records, the napps and per-user napp
\* indices, the artifact files and the latest pointers unchanged.
C7_UnauthorizedUploadRejected ==
    [][resp'.op = "register_napp" =>
       \A u \in {resp'.user}, f \in {resp'.file}, c \in Contents :
         (/\ RegisterNapp(u, c, f)
          /\ \/ ~EvalBool(users[u].enabled)
             \/ ("author" \in DOMAIN c /\ c["author"] # PyStr(u)))
         => /\ resp'.status = 401
            /\ resp'.body = "Permission denied"
            /\ UNCHANGED <<napps, nappsSet, userNapps>>
            /\ UNCHANGED <<repoDirs, repoFiles, latest>>]_vars

C7_Witness ==
    /\ resp.op = "register_napp"
    /\ resp.status = 401
    /\ ~EvalBool(users[resp.user].enabled)
    /\ DOMAIN napps # {}
    /\ repoFiles # {}
    /\ DOMAIN latest # {}

\* The extension the claims call the package archive extension: the filename
\* holds a '.' and the text after its last '.' is 'napp'.
HasNappExtension(filename) ==
    /\ \E i \in 1..Len(filename) : filename[i] = "."
    /\ RSplitExt(filename) = <<"n", "a", "p", "p">>

\* C8: allowed(filename) is true exactly for the filenames with the extension
\* 'napp', so an upload by an enabled owner is answered "Invalid file" exactly
\* when its declared filename has no extension or another one.
C8_AllowedIffNappExtension ==
    [][resp'.op = "register_napp" =>
       \A u \in {resp'.user}, f \in {resp'.file}, c \in Contents :
         (/\ RegisterNapp(u, c, f)
          /\ EvalBool(users[u].enabled)
          /\ "author" \in DOMAIN c
          /\ c["author"] = PyStr(u))
         => /\ AllowedFile(f) <=> HasNappExtension(f)
            /\ (resp'.body = "Invalid file/file extension.") <=> ~HasNappExtension(f)]_vars

\* C9: an upload into an existing author directory is stored under a name whose
\* counter is 1 + the greatest counter already present for the basename of that
\* name and day (the first counter, 0 or 1, when there is none), so it is greater
\* than every earlier counter and the name is that of no file already there.
C9_CounterIsOneMoreThanMax ==
    [][\A a \in Usernames, n \in Names :
         (a \in repoDirs /\ StoreUpload(a, n))
         => LET present == {f.counter : f \in {g \in Listing(a) :
                                                 g.name = n /\ g.date = CurrDate}}
            IN  /\ resp'.status = 201
                /\ resp'.stored.name = n
                /\ resp'.stored.date = CurrDate
                /\ IF present = {}
                   THEN resp'.stored.counter \in {0, 1}
                   ELSE \A c \in present :
                          /\ resp'.stored.counter > c
                          /\ resp'.stored.counter - 1 \in present
                /\ resp'.stored \notin Listing(a)
                /\ repoFiles' = repoFiles \cup {<<a, resp'.stored>>}]_vars

\* C10: when a register-napp request completes successfully (its last file
\* system call done, the answer 201), the pointer <name>-latest.napp exists and
\* references the artifact file this request stored, whether the pointer was
\* there when the request came to it or not.
C10_LatestPointsAtStoredArtifact ==
    [][\A r \in Requests :
         (/\ inflight[r].op = "upload"
          /\ inflight'[r] = Idle
          /\ resp'.status = 201)
         => /\ <<inflight[r].user, inflight[r].name>> \in DOMAIN latest'
            /\ latest'[<<inflight[r].user, inflight[r].name>>] = inflight[r].file
            /\ <<inflight[r].user, inflight[r].file>> \in repoFiles']_vars

\* a request has answered 201 and the pointer references its artifact, not the
\* package's other artifact, while the other request, having removed the
\* pointer, stands before its symlink
C10_Witness ==
    /\ resp.op = "update_latest_pointer"
    /\ resp.status = 201
    /\ <<resp.user, resp.stored.name>> \in DOMAIN latest
    /\ latest[<<resp.user, resp.stored.name>>] = resp.stored
    /\ <<resp.user, resp.stored>> \in repoFiles
    /\ \E f \in Listing(resp.user) : f.name = resp.stored.name /\ f # resp.stored
    /\ \E r \in Requests :
          /\ At(r, "upload", "symlink")
          /\ inflight[r].user = resp.user
          /\ inflight[r].name = resp.stored.name

\* C11: a delete for an existing (author, name) that presents the hash of the
\* author's current token removes the napp record, so that get(author, name)
\* afterwards reports that the entry does not exist; a delete whose presented
\* token is not the hash of the author's current token leaves the napp records
\* and the napps and per-user napp indices unchanged.
C11_DeleteNeedsCurrentToken ==
    [][resp'.op = "delete_napp" =>
       \A a \in {resp'.user}, n \in {resp'.stored.name}, t \in {resp'.hash} :
         DeleteNapp(a, n, t)
         => /\ (/\ a \in DOMAIN users
                /\ NappKey(a, n) \in DOMAIN napps
                /\ CurrentToken(a) # None
                /\ t = CurrentToken(a).hash)
               => /\ NappKey(a, n) \notin DOMAIN napps'
                  /\ \A r \in BOOLEAN :
                        GetNappByName(a, n, r)'.err = "NappsEntryDoesNotExists"
            /\ (/\ a \in DOMAIN users
                /\ (CurrentToken(a) = None \/ t # CurrentToken(a).hash))
               => UNCHANGED <<napps, nappsSet, userNapps>>]_vars

\* A persisted record has every required field, and none of them empty
\* (dependencies may be the empty sequence).
RequiredNonEmpty(record) ==
    \A k \in Required :
        /\ k \in DOMAIN record
        /\ IF k \in ArrayKeys
           THEN record[k].t = "repr" /\ (k = "dependencies" \/ record[k].l # <<>>)
           ELSE record[k].t = "str" /\ record[k].s # ""

\* The attributes miss a required field or give it an empty value.
LacksRequired(attributes) ==
    \E k \in Required :
        \/ k \notin DOMAIN attributes
        \/ (k # "dependencies" /\ ~Truthy(attributes[k]))

\* C12: every persisted napp record has each required field present and
\* non-empty (dependencies alone may be empty), and a create or an update whose
\* attributes miss a required field or give it an empty value fails with
\* InvalidNappMetaData and persists nothing.
C12_RequiredFieldsNonEmpty ==
    [][/\ \A k \in DOMAIN napps' : RequiredNonEmpty(napps'[k])
       /\ resp'.op \in {"new_napp_from_dict", "update_from_dict"} =>
          \A u \in {resp'.user}, c \in MetaContents :
            (/\ LacksRequired(c)
             /\ \/ NewNappFromDict(u, c)
                \/ \E n \in Names : UpdateFromDict(u, n, c))
            => /\ resp'.body = "InvalidNappMetaData"
               /\ UNCHANGED <<napps, nappsSet, userNapps>>]_vars

NoDuplicates(seq) == \A i, j \in 1..Len(seq) : seq[i] = seq[j] => i = j

\* the elements of seq at their first occurrences, in order
RECURSIVE FirstOccurrences(_)
FirstOccurrences(seq) ==
    IF seq = <<>> THEN <<>>
    ELSE LET front == FirstOccurrences(SubSeq(seq, 1, Len(seq) - 1))
             last == seq[Len(seq)]
         IN  IF \E i \in 1..Len(front) : front[i] = last THEN front
             ELSE Append(front, last)

\* C13: a napp that was populated and saved reads back with each array field
\* (ofversion, tags, dependencies) free of duplicates and holding the elements
\* that were given, in the order of their first occurrences.
C13_ArraysUniqueInOrder ==
    [][resp'.op = "new_napp_from_dict" =>
       \A u \in {resp'.user}, c \in MetaContents :
         (NewNappFromDict(u, c) /\ resp'.body = "")
         => \A r \in BOOLEAN, k \in ArrayKeys :
              LET back == GetNappByName(u, c["name"].s, r)'
              IN  /\ back.err = ""
                  /\ NoDuplicates(back.fields[k].l)
                  /\ back.fields[k].l = FirstOccurrences(c[k].l)]_vars

\* C14: an update of an existing napp with attributes whose author is not the
\* napp's owner fails with InvalidAuthor and leaves the record and the indices
\* unchanged; with the owner as author it succeeds and the record holds the new
\* values; the author of a persisted napp never changes.
C14_UpdateKeepsOwner ==
    [][resp'.op = "update_from_dict" =>
       \A u \in {resp'.user}, n \in {resp'.stored.name},
          c \in {d \in MetaContents : ~LacksRequired(d) /\ d["name"].s = resp'.stored.name} :
         UpdateFromDict(u, n, c)
         => /\ c["author"] # PyStr(u)
               => /\ resp'.body = "InvalidAuthor"
                  /\ UNCHANGED <<napps, nappsSet, userNapps>>
            /\ (c["author"] = PyStr(u) /\ Attr(c, "readme") = PyStr("r"))
               => /\ resp'.body = ""
                  /\ napps'[NappKey(u, n)] = AsDict(Populate(c, FALSE).fields)
            /\ \A k \in DOMAIN napps : /\ k \in DOMAIN napps'
                                       /\ napps'[k]["author"] = napps[k]["author"]]_vars

\* C15: with the remote out of reach and an empty readme in otherwise valid
\* attributes of the acting user, the create succeeds: no error reaches the
\* caller and the napp is persisted, its readme resolved from an empty readme
\* (the rendering of the long description, or of nothing).
C15_ReadmeBackfillIsBestEffort ==
    [][resp'.op = "new_napp_from_dict" =>
       \A u \in {resp'.user}, c \in MetaContents :
         (/\ NewNappFromDictWhen(u, c, FALSE)
          /\ ~LacksRequired(c)
          /\ c["author"] = PyStr(u)
          /\ ~Truthy(Attr(c, "readme")))
         => /\ resp'.body = ""
            /\ NappKey(u, c["name"].s) \in DOMAIN napps'
            /\ napps'[NappKey(u, c["name"].s)]["readme"] =
                  Html(IF "long_description" \in DOMAIN c
                       THEN c["long_description"] ELSE PyStr(""))]_vars

\* C16: disable on a user that has a current valid token leaves the persisted
\* user disabled and the user without a current token; on a user without a
\* current valid token it fails and leaves the user record and every token
\* record as they were.
C16_DisableRevokesCurrentToken ==
    [][resp'.op = "disable" =>
       \A u \in {resp'.user} :
         Disable(u)
         => /\ CurrentToken(u) # None
               => /\ resp'.status = 0
                  /\ ~EvalBool(users'[u].enabled)
                  /\ CurrentToken(u)' = None
            /\ CurrentToken(u) = None
               => /\ resp'.status = 500
                  /\ users' = users
                  /\ tokens' = tokens]_vars

\* C17: in every state, also between the store writes of a save that others
\* run alongside or that dies midway, a key is in the users, tokens or napps
\* membership set exactly if its primary record exists.
C17_IndexIffRecord ==
    /\ \A u \in Usernames : UserKey(u) \in usersSet <=> u \in DOMAIN users
    /\ \A h \in Hashes : TokenKey(h) \in tokensSet <=> h \in DOMAIN tokens
    /\ \A a \in Usernames, n \in Names :
          NappKey(a, n) \in nappsSet <=> NappKey(a, n) \in DOMAIN napps

\* C18: of two register-napp requests for the same author, name and day, in
\* whatever order their steps fall, each stores its artifact, and under a
\* filename that no file in the author's directory has: the other request's
\* artifact is not overwritten and the two filenames differ.
C18_ConcurrentUploadsGetDistinctNames ==
    [][\A r \in Requests :
         (At(r, "upload", "save") /\ FileSave(r))
         => \E f \in repoFiles' \ repoFiles :
              /\ f[1] = inflight[r].user
              /\ f[2].name = inflight[r].name
              /\ f[2].date = inflight[r].file.date]_vars

\* C19: a latest pointer that exists goes on existing through every step of
\* every upload, a crash inside the pointer update and uploads of the same
\* package side by side included, and the pointer update never fails because
\* another upload has put the pointer back.
C19_LatestPointerNeverMissing ==
    [][/\ \A k \in DOMAIN latest : k \in DOMAIN latest'
       /\ resp'.op = "update_latest_pointer" => resp'.status = 201]_vars

\* C20: of the confirm requests for one user that present the same token hash,
\* in whatever order their steps fall, at most one returns success: no request
\* succeeds with a hash that a confirm has succeeded with before.
C20_OneConfirmPerToken ==
    [][\A r \in Requests :
         (At(r, "confirm", "invalidate_hmset") /\ ConfirmInvalidateHmset(r))
         => inflight[r].hash \notin confirmed]_vars

\* C21: every confirm request ends with ok (200), InvalidToken (400) or
\* EntryNotFound (404), also when the current token expires or is invalidated
\* between two of the request's reads of it; a request that ends otherwise than
\* ok has not enabled the user, and when one ends ok the token is invalidated.
C21_ConfirmEndsWithTypedOutcome ==
    [][\A r \in Requests :
         (inflight[r].op = "confirm" /\ inflight'[r] = Idle)
         => /\ resp'.op = "confirm_user"
            /\ resp'.status \in {200, 400, 404}
            /\ resp'.status # 200 => inflight[r].read < 4
            /\ resp'.status = 200
               => /\ EvalBool(users'[inflight[r].user].enabled)
                  /\ tokens'[inflight[r].hash].expiration_time = 0]_vars

\* every key of a user's token list has a record, is in the tokens set, names
\* that user as its owner, and the owner's record exists
TokenListsSound ==
    \A u \in Usernames :
       \A i \in 1..Len(userTokens[u]) :
          LET h == userTokens[u][i]
          IN  /\ h \in DOMAIN tokens
              /\ TokenKey(h) \in tokensSet
              /\ tokens[h].user = u
              /\ u \in DOMAIN users

\* a step deletes no token record and changes no record's hash or owner
TokenRecordsKept ==
    \A h \in DOMAIN tokens :
       /\ h \in DOMAIN tokens'
       /\ tokens'[h].hash = tokens[h].hash
       /\ tokens'[h].user = tokens[h].user

\* C22: in every reachable state, also between the store commands of requests
\* served side by side (register, user save, create_token, invalidate), every
\* key in a user's token list refers to an existing token record that is in the
\* tokens set and owned by that user, whose user record exists; and no step
\* deletes a token record or changes its hash or owner.
C22_TokenListsReferToOwnedRecords ==
    []TokenListsSound /\ [][TokenRecordsKept]_vars

\* a user holds a listed token whose record an invalidation has rewritten,
\* while a request has saved another token's record and not yet pushed its key
C22_Witness ==
    \E u \in Usernames, r \in Requests :
       /\ Len(userTokens[u]) >= 1
       /\ \E i \in 1..Len(userTokens[u]) : userTokens[u][i] \in invalidated
       /\ At(r, "create_token", "lpush")
       /\ inflight[r].hash \in DOMAIN tokens

====
